---------------------------- MODULE Spec2Model ----------------------------
(***************************************************************************)
(* A model of the four schedulers of Project1/main.go: FCFSSchedule,       *)
(* SJFSchedule, SJFPrioritySchedule and RRSchedule.  One behaviour is one  *)
(* run of main's calling sequence on one process list: every scheduler is  *)
(* stepped one loop iteration at a time, with its local variables as the   *)
(* state.  Go's int64 and float64 are modelled by integers (the bounds     *)
(* keep every value far from 2^53); a float64 quotient is kept as the pair *)
(* of its operands, so that 0/0 (NaN) stays visible.  The rows of the      *)
(* schedule table are kept as the integers handed to fmt.Sprint.           *)
(***************************************************************************)
EXTENDS Integers, Sequences, FiniteSets, TLC

\* ------------------------------------------------------------ bounds
\* The bounded family of inputs: at most MaxN processes, arrival times in
\* 0..MaxArrival, burst durations in 1..MaxBurst, priorities in 0..MaxPriority.
MaxN ==
  2
MaxArrival ==
  1
MaxBurst ==
  3
MaxPriority ==
  1
\* The tick loops are followed for at most MaxTicks ticks.  Every run on an
\* input with positive bursts ends well before (26 ticks for the longest
\* example); a burst of 0 sends RemainingTime below 0, and the loop then
\* runs on until int64 wraps around.
MaxTicks ==
  30

\* quantum_time := int64(2)
quantum_time ==
  2

Algorithms == {"FCFS", "SJF", "Priority", "RR"}

VARIABLES
  input,           \* what loadProcesses returned (never written afterwards)
  processes,       \* main's slice, the argument of every scheduler
  alg,             \* the scheduler main is in
  pc,              \* "entry", "loop", "done" or "panic"
  schedule,        \* schedule [][]string: a row per slot, <<>> is a nil row
  gantt,           \* gantt []TimeSlice
  serviceTime,     \* FCFS, RR
  waitingTime,     \* FCFS: declared outside the loop
  totalWait,       \* FCFS, SJF, Priority: totalWait; RR: wait
  totalTurnaround,
  lastCompletion,  \* FCFS, RR
  idx,             \* FCFS: the range index i (1-based)
  currentTime,     \* SJF, Priority
  pqA,             \* pqA.processes
  pq,              \* pq.processes
  process,         \* the local copy of the running process
  count,           \* SJF, Priority: rows written so far
  ticks,           \* history: the ProcessID that executed in each tick
  queue,           \* RR: the ready queue
  pending,         \* RR: its own slice header over processes
  aveWait, aveTurnaround, aveThroughput

vars == <<input, processes, alg, pc, schedule, gantt, serviceTime, waitingTime,
          totalWait, totalTurnaround, lastCompletion, idx, currentTime, pqA, pq,
          process, count, ticks, queue, pending,
          aveWait, aveTurnaround, aveThroughput>>

\* ------------------------------------------------------------ data
\* type Process struct: a value of it as loadProcesses fills it.
Process(id, arrival, burst, priority) ==
  [ProcessID |-> id, ArrivalTime |-> arrival, BurstDuration |-> burst,
   Priority |-> priority, RemainingTime |-> 0, CompleteTime |-> 0,
   TurnAroundTime |-> 0, WaitTime |-> 0]

\* The zero value of Process.
ZeroProcess == Process(0, 0, 0, 0)

\* type TimeSlice struct
TimeSlice(pid, start, stop) == [PID |-> pid, Start |-> start, Stop |-> stop]

\* One row of the schedule table, in the order of the header:
\* ID, Priority, Burst, Arrival, Wait, Turnaround, Exit.
Row(id, priority, burst, arrival, wait, turnaround, exit) ==
  <<id, priority, burst, arrival, wait, turnaround, exit>>

RowID(r) == r[1]
RowBurst(r) == r[3]
RowArrival(r) == r[4]
RowWait(r) == r[5]
RowTurnaround(r) == r[6]
RowExit(r) == r[7]

\* make([][]string, n): n nil rows.
MakeSchedule(n) == [k \in 1..n |-> <<>>]

\* A float64 quotient a / b, kept as its operands: 0/0 is NaN, x/0 is +-Inf.
Quotient(a, b) == [num |-> a, den |-> b]
IsNaN(q) == q.num = 0 /\ q.den = 0
IsZero(q) == q.num = 0 /\ q.den # 0
NoQuotient == Quotient(0, 1)

\* minimum(x, y)
minimum(x, y) == IF x < y THEN x ELSE y

Front(s) == SubSeq(s, 1, Len(s) - 1)
Last(s) == s[Len(s)]

\* RemoveProcess(index), index 0-based as in the source.
RemoveProcess(s, index) == SubSeq(s, 1, index) \o SubSeq(s, index + 2, Len(s))


\* ------------------------------------------------------------ ordering
\* The less functions handed to sort.Slice.
lessArrival(a, b) ==
  \/ a.ArrivalTime < b.ArrivalTime
  \/ (a.ArrivalTime = b.ArrivalTime /\ a.BurstDuration < b.BurstDuration)

\* A ready set ordered by arrival time first (remaining time ignored until a tie).
lessDeployByArrival(a, b) ==
  \/ a.ArrivalTime < b.ArrivalTime
  \/ (a.ArrivalTime = b.ArrivalTime /\ a.RemainingTime < b.RemainingTime)

lessDeploy(a, b) ==
  \/ a.RemainingTime < b.RemainingTime
  \/ (a.RemainingTime = b.RemainingTime /\ a.ArrivalTime < b.ArrivalTime)

lessPriority(a, b) ==
  \/ a.Priority < b.Priority
  \/ (a.Priority = b.Priority /\ a.BurstDuration < b.BurstDuration)
  \/ (a.Priority = b.Priority /\ a.BurstDuration = b.BurstDuration
        /\ a.ArrivalTime < b.ArrivalTime)

Less(policy, a, b) ==
  CASE policy = "arrival"  -> lessArrival(a, b)
    [] policy = "deploy"   -> lessDeploy(a, b)
    [] policy = "priority" -> lessPriority(a, b)

\* sort.Slice on at most 12 elements is an insertion sort: element i moves
\* left while it is less than its left neighbour.  (Every slice sorted here
\* holds at most MaxN + 1 elements.)
RECURSIVE insertLeft(_, _, _)
insertLeft(sorted, x, policy) ==
  IF sorted = <<>> THEN <<x>>
  ELSE IF Less(policy, x, Last(sorted))
       THEN Append(insertLeft(Front(sorted), x, policy), Last(sorted))
       ELSE Append(sorted, x)

RECURSIVE insertionSort(_, _)
insertionSort(s, policy) ==
  IF Len(s) <= 1 THEN s
  ELSE insertLeft(insertionSort(Front(s), policy), Last(s), policy)

sortArrivalQueue(s) == insertionSort(s, "arrival")
sortDeployQueue(s) == insertionSort(s, "deploy")
sortPriorityQueue(s) == insertionSort(s, "priority")

\* ------------------------------------------------------------ inputs
\* The bounded family: ids 1..n in input order, arrival times non-decreasing
\* (the order the callers hand over), every burst positive.
RECURSIVE ArrivalOrdered(_)
ArrivalOrdered(n) ==
  IF n = 0 THEN {<<>>}
  ELSE UNION {
         {Append(s, Process(n, a, b, p)) :
            a \in (IF s = <<>> THEN 0 ELSE Last(s).ArrivalTime)..MaxArrival,
            b \in 1..MaxBurst, p \in 0..MaxPriority} :
         s \in ArrivalOrdered(n - 1)}

IsArrivalSorted(ps) ==
  \A k \in 1..(Len(ps) - 1) : ps[k].ArrivalTime <= ps[k + 1].ArrivalTime

Family == UNION {ArrivalOrdered(n) : n \in 0..MaxN}

\* The worked examples of the documentation, and an input out of arrival order.
SRTFExample ==
  <<Process(1, 0, 8, 0), Process(2, 1, 4, 0), Process(3, 2, 9, 0), Process(4, 3, 5, 0)>>
FCFSExample ==
  <<Process(1, 0, 5, 0), Process(2, 1, 3, 0)>>
RRExample ==
  <<Process(1, 0, 5, 0)>>
UnsortedExample ==
  <<Process(1, 2, 1, 0), Process(2, 0, 2, 1)>>
\* Three processes arriving one tick apart: a ready set of three.
StaggeredExample ==
  <<Process(1, 0, 3, 1), Process(2, 1, 3, 0), Process(3, 2, 1, 1)>>

\* A unique positive id that is not a slot of a one-row table.
OutOfRangeIdExample ==
  <<Process(2, 0, 1, 0)>>
\* Inputs outside the contract: a burst of 0, a negative arrival time.
ZeroBurstExample ==
  <<Process(1, 0, 0, 0)>>
NegativeArrivalExample ==
  <<Process(1, -1, 1, 0)>>

Inputs ==
  Family \cup {SRTFExample, FCFSExample, RRExample, UnsortedExample,
               StaggeredExample, OutOfRangeIdExample, ZeroBurstExample,
               NegativeArrivalExample}

\* Valid input: positive bursts, non-negative arrivals.
IsValid(ps) ==
  \A k \in 1..Len(ps) : ps[k].BurstDuration > 0 /\ ps[k].ArrivalTime >= 0

\* ------------------------------------------------------------ Init
\* main has loaded the processes and is about to call a scheduler.
Locals0 ==
  /\ schedule = <<>> /\ gantt = <<>>
  /\ serviceTime = 0 /\ waitingTime = 0
  /\ totalWait = 0 /\ totalTurnaround = 0 /\ lastCompletion = 0
  /\ idx = 0 /\ currentTime = 0
  /\ pqA = <<>> /\ pq = <<>> /\ process = ZeroProcess /\ count = 0
  /\ ticks = <<>> /\ queue = <<>> /\ pending = <<>>
  /\ aveWait = NoQuotient /\ aveTurnaround = NoQuotient
  /\ aveThroughput = NoQuotient

Init ==
  /\ input \in Inputs
  /\ processes = input
  /\ alg \in Algorithms
  /\ pc = "entry"
  /\ Locals0

\* ------------------------------------------------------------ FCFSSchedule
\* Lines 108-110: waitingTime is assigned only for a process that arrives
\* after tick 0; otherwise it keeps the previous iteration's value.
\* The wait taken to be the service clock, the arrival time not subtracted.
FCFSWaitingTimeNoArrival(previous, service, p) ==
  IF p.ArrivalTime > 0 THEN service ELSE previous

FCFSWaitingTime(previous, service, p) ==
  IF p.ArrivalTime > 0 THEN service - p.ArrivalTime ELSE previous

\* Lines 98-106: the var block.
FCFSEnter ==
  /\ alg = "FCFS" /\ pc = "entry"
  /\ schedule' = MakeSchedule(Len(processes))
  /\ gantt' = <<>>
  /\ idx' = 1
  /\ pc' = "loop"
  /\ UNCHANGED <<input, processes, alg, serviceTime, waitingTime, totalWait,
                 totalTurnaround, lastCompletion, currentTime, pqA, pq, process,
                 count, ticks, queue, pending, aveWait, aveTurnaround,
                 aveThroughput>>

\* Lines 107-137: one iteration of `for i := range processes`.
FCFSIter ==
  /\ alg = "FCFS" /\ pc = "loop" /\ idx <= Len(processes)
  /\ LET p == processes[idx]
         w == FCFSWaitingTime(waitingTime, serviceTime, p)
         start == w + p.ArrivalTime
         turnaround == p.BurstDuration + w
         completion == p.BurstDuration + p.ArrivalTime + w
         service == serviceTime + p.BurstDuration
     IN /\ waitingTime' = w
        /\ totalWait' = totalWait + w
        /\ totalTurnaround' = totalTurnaround + turnaround
        /\ lastCompletion' = completion
        /\ schedule' = [schedule EXCEPT ![idx] =
                          Row(p.ProcessID, p.Priority, p.BurstDuration,
                              p.ArrivalTime, w, turnaround, completion)]
        /\ serviceTime' = service
        /\ gantt' = Append(gantt, TimeSlice(p.ProcessID, start, service))
  /\ idx' = idx + 1
  /\ UNCHANGED <<input, processes, alg, pc, currentTime, pqA, pq, process,
                 count, ticks, queue, pending, aveWait, aveTurnaround,
                 aveThroughput>>

\* Lines 139-146: the averages, then the output.
FCFSFinish ==
  /\ alg = "FCFS" /\ pc = "loop" /\ idx > Len(processes)
  /\ LET n == Len(processes)
     IN /\ aveWait' = Quotient(totalWait, n)
        /\ aveTurnaround' = Quotient(totalTurnaround, n)
        /\ aveThroughput' = Quotient(n, lastCompletion)
  /\ pc' = "done"
  /\ UNCHANGED <<input, processes, alg, schedule, gantt, serviceTime,
                 waitingTime, totalWait, totalTurnaround, lastCompletion, idx,
                 currentTime, pqA, pq, process, count, ticks, queue, pending>>

\* ------------------------------------------- SJFSchedule, SJFPrioritySchedule
\* Lines 223-226 (158-161): `for _, process := range processes` works on a
\* copy of each element; caller is what the loop leaves in the caller's
\* slice, queue is pqA.processes.
\* The loop written over the caller's elements (processes[i].RemainingTime = ...).
LoadArrivalQueueInPlace(ps) ==
  LET loaded == [k \in 1..Len(ps) |->
                   [ps[k] EXCEPT !.RemainingTime = ps[k].BurstDuration]]
  IN [caller |-> loaded, queue |-> loaded]

LoadArrivalQueue(ps) ==
  [caller |-> ps,
   queue  |-> [k \in 1..Len(ps) |->
                 [ps[k] EXCEPT !.RemainingTime = ps[k].BurstDuration]]]

\* Lines 244-246 (177-179): the running process completes at tick t.
\* The wait taken from the remaining time instead of the burst duration.
CompleteFromRemaining(p, t) ==
  [p EXCEPT !.CompleteTime = t,
            !.TurnAroundTime = t - p.ArrivalTime,
            !.WaitTime = (t - p.ArrivalTime) - p.RemainingTime]

Complete(p, t) ==
  [p EXCEPT !.CompleteTime = t,
            !.TurnAroundTime = t - p.ArrivalTime,
            !.WaitTime = (t - p.ArrivalTime) - p.BurstDuration]

\* Lines 262-263 (195-196): the first pending process, in pqA's order, whose
\* arrival time equals t; 0 when there is none (1-based otherwise).
ArrivalIndex(pa, t) ==
  LET hits == {k \in 1..Len(pa) : pa[k].ArrivalTime = t}
  IN IF hits = {} THEN 0
     ELSE CHOOSE k \in hits : \A j \in hits : k <= j

\* A ready set left in arrival order whatever the policy.
SortReadyByArrival(s, policy) == sortArrivalQueue(s)

\* Line 268 (201): the sort of the ready set after an admission.
SortReady(s, policy) ==
  IF policy = "deploy" THEN sortDeployQueue(s) ELSE sortPriorityQueue(s)

\* Lines 215-231 (150-166): the var block, the copy into pqA, the sort and
\* the seeding of pq; pqA.processes[0] of an empty slice is a runtime panic.
PreemptiveEnter ==
  /\ pc = "entry"
  /\ LET loaded == LoadArrivalQueue(processes)
         sorted == sortArrivalQueue(loaded.queue)
     IN /\ processes' = loaded.caller
        /\ schedule' = MakeSchedule(Len(processes))
        /\ IF Len(sorted) = 0
           THEN /\ pc' = "panic"
                /\ UNCHANGED <<pqA, pq, process>>
           ELSE /\ pc' = "loop"
                /\ process' = sorted[1]
                /\ pqA' = RemoveProcess(sorted, 0)
                /\ pq' = <<sorted[1]>>
  /\ count' = 0
  /\ UNCHANGED <<input, alg, gantt, serviceTime, waitingTime, totalWait,
                 totalTurnaround, lastCompletion, idx, currentTime, ticks,
                 queue, pending, aveWait, aveTurnaround, aveThroughput>>

\* Lines 232-274 (167-206): one iteration of `for len(pq.processes) > 0`:
\* decrement, tick, then either the completion branch (and `continue`) or
\* the scan of pqA for a process arriving exactly now.
PreemptiveTick(policy) ==
  /\ pc = "loop" /\ Len(pq) > 0
  /\ currentTime < MaxTicks
  /\ LET picked == IF process.RemainingTime = 0 THEN pq[1] ELSE process
         running == [picked EXCEPT !.RemainingTime = picked.RemainingTime - 1]
         now == currentTime + 1
     IN /\ currentTime' = now
        /\ ticks' = Append(ticks, running.ProcessID)
        /\ IF running.RemainingTime = 0
           THEN LET done == Complete(running, now)
                IN /\ process' = done
                   /\ totalWait' = totalWait + done.WaitTime
                   /\ totalTurnaround' = totalTurnaround + done.TurnAroundTime
                   /\ IF count + 1 > Len(schedule)
                      THEN /\ pc' = "panic"
                           /\ UNCHANGED <<schedule, count, pq>>
                      ELSE /\ schedule' = [schedule EXCEPT ![count + 1] =
                                 Row(done.ProcessID, done.Priority,
                                     done.BurstDuration, done.ArrivalTime,
                                     done.WaitTime, done.TurnAroundTime,
                                     done.CompleteTime)]
                           /\ count' = count + 1
                           /\ pq' = RemoveProcess(pq, 0)
                           /\ pc' = "loop"
                   /\ UNCHANGED pqA
           ELSE LET i == ArrivalIndex(pqA, now)
                IN /\ IF i = 0
                      THEN /\ process' = running
                           /\ UNCHANGED <<pq, pqA>>
                      ELSE LET readied ==
                                 SortReady(
                                   Append(Append(RemoveProcess(pq, 0), pqA[i]),
                                          running),
                                   policy)
                           IN /\ pq' = readied
                              /\ pqA' = RemoveProcess(pqA, i - 1)
                              /\ process' = readied[1]
                   /\ UNCHANGED <<schedule, count, totalWait, totalTurnaround,
                                  pc>>
  /\ UNCHANGED <<input, processes, alg, gantt, serviceTime, waitingTime,
                 lastCompletion, idx, queue, pending, aveWait, aveTurnaround,
                 aveThroughput>>

\* Lines 275-280 (207-212): the averages, then the output.
PreemptiveFinish ==
  /\ pc = "loop" /\ Len(pq) = 0
  /\ LET total == Len(processes)
     IN /\ aveWait' = Quotient(totalWait, total)
        /\ aveTurnaround' = Quotient(totalTurnaround, total)
        /\ aveThroughput' = Quotient(total, process.CompleteTime)
  /\ pc' = "done"
  /\ UNCHANGED <<input, processes, alg, schedule, gantt, serviceTime,
                 waitingTime, totalWait, totalTurnaround, lastCompletion, idx,
                 currentTime, pqA, pq, process, count, ticks, queue, pending>>

SJFEnter == alg = "SJF" /\ PreemptiveEnter
SJFTick == alg = "SJF" /\ PreemptiveTick("deploy")
SJFFinish == alg = "SJF" /\ PreemptiveFinish

SJFPriorityEnter == alg = "Priority" /\ PreemptiveEnter
SJFPriorityTick == alg = "Priority" /\ PreemptiveTick("priority")
SJFPriorityFinish == alg = "Priority" /\ PreemptiveFinish

\* ------------------------------------------------------------ RRSchedule
\* An admission that leaves out the processes arriving exactly now.
RECURSIVE AdmitCountStrict(_, _)
AdmitCountStrict(ps, t) ==
  IF ps = <<>> \/ Head(ps).ArrivalTime >= t THEN 0
  ELSE 1 + AdmitCountStrict(Tail(ps), t)

\* An admission that looks one quantum ahead of the clock.
RECURSIVE AdmitCountAhead(_, _)
AdmitCountAhead(ps, t) ==
  IF ps = <<>> \/ Head(ps).ArrivalTime > t + quantum_time THEN 0
  ELSE 1 + AdmitCountAhead(Tail(ps), t)

\* Lines 297-300: how many processes at the head of the pending slice have
\* arrived by tick t.
RECURSIVE AdmitCount(_, _)
AdmitCount(ps, t) ==
  IF ps = <<>> \/ Head(ps).ArrivalTime > t THEN 0
  ELSE 1 + AdmitCount(Tail(ps), t)

\* Lines 327-332: the residual of a process its slice did not finish.
Residual(p, service, duration) ==
  [ZeroProcess EXCEPT !.ProcessID = p.ProcessID,
                      !.ArrivalTime = service,
                      !.BurstDuration = p.BurstDuration - duration,
                      !.Priority = p.Priority]

\* The idle skip stopping one tick short of the next arrival.
IdleSkipShort(left) == left[1].ArrivalTime - 1

\* Line 353: the idle skip moves the clock to the next pending arrival.
IdleSkipTo(left) == left[1].ArrivalTime

\* Lines 283-294: the var block; processes is RRSchedule's own slice header.
RREnter ==
  /\ alg = "RR" /\ pc = "entry"
  /\ schedule' = MakeSchedule(Len(processes))
  /\ gantt' = <<>>
  /\ queue' = <<>>
  /\ pending' = processes
  /\ serviceTime' = 0
  /\ pc' = "loop"
  /\ UNCHANGED <<input, processes, alg, waitingTime, totalWait,
                 totalTurnaround, lastCompletion, idx, currentTime, pqA, pq,
                 process, count, ticks, aveWait, aveTurnaround, aveThroughput>>

\* Lines 296-355: one iteration of the queue loop: admit, then run the head
\* of the queue for one slice, or skip the idle time to the next arrival.
RRIter ==
  /\ alg = "RR" /\ pc = "loop"
  /\ (Len(queue) > 0 \/ Len(pending) > 0)
  /\ LET k == AdmitCount(pending, serviceTime)
         ready == queue \o SubSeq(pending, 1, k)
         left == SubSeq(pending, k + 1, Len(pending))
     IN /\ pending' = left
        /\ IF Len(ready) > 0
           THEN LET p == Head(ready)
                    w == IF serviceTime - p.ArrivalTime < 0 THEN 0
                         ELSE serviceTime - p.ArrivalTime
                    duration == minimum(p.BurstDuration, quantum_time)
                    service == serviceTime + duration
                    finished == (duration = p.BurstDuration)
                IN /\ totalWait' = totalWait + w
                   /\ serviceTime' = service
                   /\ totalTurnaround' =
                        IF finished
                        THEN totalTurnaround + (service - p.ArrivalTime)
                        ELSE totalTurnaround
                   /\ lastCompletion' =
                        IF finished THEN service ELSE service - duration
                   /\ queue' =
                        IF finished THEN Tail(ready)
                        ELSE Append(Tail(ready), Residual(p, service, duration))
                   /\ IF p.ProcessID - 1 \in 0..(Len(schedule) - 1)
                      THEN /\ schedule' = [schedule EXCEPT ![p.ProcessID] =
                                 Row(p.ProcessID, p.Priority, p.BurstDuration,
                                     p.ArrivalTime, w, service - p.ArrivalTime,
                                     service)]
                           /\ gantt' = Append(gantt,
                                 TimeSlice(p.ProcessID, service - duration,
                                           service))
                           /\ pc' = "loop"
                      ELSE /\ pc' = "panic"
                           /\ UNCHANGED <<schedule, gantt>>
           ELSE /\ queue' = ready
                /\ IF Len(left) > 0
                   THEN serviceTime' = IdleSkipTo(left) /\ pc' = "loop"
                   ELSE pc' = "panic" /\ UNCHANGED serviceTime
                /\ UNCHANGED <<schedule, gantt, totalWait, totalTurnaround,
                               lastCompletion>>
  /\ UNCHANGED <<input, processes, alg, waitingTime, idx, currentTime, pqA, pq,
                 process, count, ticks, aveWait, aveTurnaround, aveThroughput>>

\* Lines 357-366: the averages, then the output.
RRFinish ==
  /\ alg = "RR" /\ pc = "loop"
  /\ Len(queue) = 0 /\ Len(pending) = 0
  /\ LET n == Len(schedule)
     IN /\ aveTurnaround' = Quotient(totalTurnaround, n)
        /\ aveWait' = Quotient(totalWait, n)
        /\ aveThroughput' = Quotient(n, lastCompletion)
  /\ pc' = "done"
  /\ UNCHANGED <<input, processes, alg, schedule, gantt, serviceTime,
                 waitingTime, totalWait, totalTurnaround, lastCompletion, idx,
                 currentTime, pqA, pq, process, count, ticks, queue, pending>>

\* ------------------------------------------------------------ main
\* Lines 32-34: main calls FCFSSchedule, SJFSchedule and SJFPrioritySchedule
\* one after another on the same slice; every call starts from fresh locals.
NextCall(a) ==
  IF a = "FCFS" THEN "SJF" ELSE "Priority"

MainNext ==
  /\ pc = "done" /\ alg \in {"FCFS", "SJF"}
  /\ alg' = NextCall(alg)
  /\ pc' = "entry"
  /\ schedule' = <<>> /\ gantt' = <<>>
  /\ serviceTime' = 0 /\ waitingTime' = 0
  /\ totalWait' = 0 /\ totalTurnaround' = 0 /\ lastCompletion' = 0
  /\ idx' = 0 /\ currentTime' = 0
  /\ pqA' = <<>> /\ pq' = <<>> /\ process' = ZeroProcess /\ count' = 0
  /\ ticks' = <<>> /\ queue' = <<>> /\ pending' = <<>>
  /\ aveWait' = NoQuotient /\ aveTurnaround' = NoQuotient
  /\ aveThroughput' = NoQuotient
  /\ UNCHANGED <<input, processes>>

Next ==
  \/ FCFSEnter \/ FCFSIter \/ FCFSFinish
  \/ SJFEnter \/ SJFTick \/ SJFFinish
  \/ SJFPriorityEnter \/ SJFPriorityTick \/ SJFPriorityFinish
  \/ RREnter \/ RRIter \/ RRFinish
  \/ MainNext

Spec == Init /\ [][Next]_vars

\* The program is single-threaded and nothing suspends it: whenever a step
\* is possible, one is taken.
SpecFair == Spec /\ WF_vars(Next)

\* ------------------------------------------------------------ properties
\* The Metrics Records emitted so far: the slots of schedule that hold a row.
Emitted == {k \in 1..Len(schedule) : schedule[k] # <<>>}
RowsOf(id) == {k \in Emitted : RowID(schedule[k]) = id}

\* The ticks in which process id was the running process (SJF, Priority).
TicksOf(id) == Cardinality({t \in 1..Len(ticks) : ticks[t] = id})

\* The total length of the Timeline intervals of process id (FCFS, RR).
RECURSIVE SliceTime(_, _)
SliceTime(g, id) ==
  IF g = <<>> THEN 0
  ELSE (IF Head(g).PID = id THEN Head(g).Stop - Head(g).Start ELSE 0)
       + SliceTime(Tail(g), id)

Executed(id) ==
  IF alg \in {"FCFS", "RR"} THEN SliceTime(gantt, id) ELSE TicksOf(id)

\* The stop of the last Timeline interval of process id.
LastStop(id) ==
  LET mine == {k \in 1..Len(gantt) : gantt[k].PID = id}
  IN IF mine = {} THEN 0
     ELSE gantt[CHOOSE k \in mine : \A j \in mine : j <= k].Stop

Preemptive == {"SJF", "Priority"}
LoopExited == alg \in Preemptive /\ pc = "loop" /\ Len(pq) = 0

\* C1: for every non-empty valid input, when the tick loop of SJFSchedule or
\* SJFPrioritySchedule exits, the ready set and the arrival-pending set are
\* both empty, and every input process has run for its whole burst and has
\* exactly one Metrics Record.
C1_ExitAllDone ==
  (LoopExited /\ Len(input) > 0 /\ IsValid(input)) =>
    /\ Len(pq) = 0 /\ Len(pqA) = 0
    /\ \A k \in 1..Len(input) :
         /\ Cardinality(RowsOf(input[k].ProcessID)) = 1
         /\ TicksOf(input[k].ProcessID) = input[k].BurstDuration

\* C2: for every algorithm and every valid arrival-sorted input, every
\* reported wait time and turnaround time is >= 0.
C2_NonNegative ==
  (IsValid(input) /\ IsArrivalSorted(input)) =>
    \A k \in Emitted :
      RowWait(schedule[k]) >= 0 /\ RowTurnaround(schedule[k]) >= 0

\* C3: in FCFSSchedule, SJFSchedule and SJFPrioritySchedule every emitted
\* Metrics Record carries the input arrival time and burst duration of its
\* process, with turnaround = completion - arrival and
\* wait = turnaround - burst.
C3_RecordIdentities ==
  alg \in {"FCFS", "SJF", "Priority"} =>
    \A k \in Emitted :
      \E j \in 1..Len(input) :
        /\ input[j].ProcessID = RowID(schedule[k])
        /\ RowArrival(schedule[k]) = input[j].ArrivalTime
        /\ RowBurst(schedule[k]) = input[j].BurstDuration
        /\ RowTurnaround(schedule[k])
             = RowExit(schedule[k]) - input[j].ArrivalTime
        /\ RowWait(schedule[k])
             = RowTurnaround(schedule[k]) - input[j].BurstDuration

\* A preemptive run that emitted two records, one of a process that waited.
C3_Witness ==
  /\ alg = "SJF" /\ pc = "done" /\ count = 2
  /\ \E k \in Emitted : RowWait(schedule[k]) > 0

\* C4: conservation of work: at the end of a run on a valid arrival-sorted
\* input, every process has been given exactly its burst duration.
C4_Conservation ==
  (pc = "done" /\ IsValid(input) /\ IsArrivalSorted(input)) =>
    \A k \in 1..Len(input) :
      Executed(input[k].ProcessID) = input[k].BurstDuration

\* C5: the Timeline intervals of FCFSSchedule and RRSchedule are pairwise
\* non-overlapping on every valid arrival-sorted input.
C5_NoOverlap ==
  (alg \in {"FCFS", "RR"} /\ IsValid(input) /\ IsArrivalSorted(input)) =>
    \A a \in 1..Len(gantt) : \A b \in 1..Len(gantt) :
      a # b => (gantt[a].Stop <= gantt[b].Start \/ gantt[b].Stop <= gantt[a].Start)

\* C6: SJFSchedule on the textbook input runs process 1 in the first tick,
\* preempts it at tick 1 in favour of process 2, and completes process 2 at
\* 5, process 4 at 10, process 1 at 17 and process 3 at 26.
C6_TextbookSRTF ==
  (input = SRTFExample /\ alg = "SJF") =>
    /\ Len(ticks) >= 1 => ticks[1] = 1
    /\ Len(ticks) >= 2 => ticks[2] = 2
    /\ (pc = "loop" /\ currentTime = 1) => process.ProcessID = 2
    /\ pc = "done" =>
         /\ Len(schedule) = 4 /\ Emitted = 1..4
         /\ RowID(schedule[1]) = 2 /\ RowExit(schedule[1]) = 5
         /\ RowID(schedule[2]) = 4 /\ RowExit(schedule[2]) = 10
         /\ RowID(schedule[3]) = 1 /\ RowExit(schedule[3]) = 17
         /\ RowID(schedule[4]) = 3 /\ RowExit(schedule[4]) = 26

\* The textbook run has ended, at tick 26.
C6_Witness ==
  input = SRTFExample /\ alg = "SJF" /\ pc = "done" /\ currentTime = 26

\* C7 as stated: FCFSSchedule on [(1, arrival 0, burst 5), (2, arrival 1,
\* burst 3)] reports for process 1 wait 0 and completion 5, and for process 2
\* wait 4, completion 9 and turnaround 8.
C7_AsStated ==
  (input = FCFSExample /\ alg = "FCFS" /\ pc = "done") =>
    /\ RowWait(schedule[1]) = 0 /\ RowExit(schedule[1]) = 5
    /\ RowWait(schedule[2]) = 4 /\ RowExit(schedule[2]) = 9
    /\ RowTurnaround(schedule[2]) = 8

\* C7 amended: on that input FCFSSchedule reports for process 1 wait 0 and
\* completion 5, and for process 2 wait 4, completion 8 and turnaround 7.
C7_FCFSExample ==
  (input = FCFSExample /\ alg = "FCFS" /\ pc = "done") =>
    /\ RowID(schedule[1]) = 1
    /\ RowWait(schedule[1]) = 0 /\ RowExit(schedule[1]) = 5
    /\ RowID(schedule[2]) = 2
    /\ RowWait(schedule[2]) = 4 /\ RowExit(schedule[2]) = 8
    /\ RowTurnaround(schedule[2]) = 7

\* FCFSSchedule has finished the two-process example with both records.
C7_Witness ==
  input = FCFSExample /\ alg = "FCFS" /\ pc = "done" /\ Emitted = {1, 2}

\* C8: after a run of RRSchedule the Metrics Record of every process reports
\* turnaround = (end of its last slice) - its input arrival time and
\* wait = that turnaround - its input burst duration.
C8_RRRecord ==
  (alg = "RR" /\ pc = "done" /\ IsValid(input) /\ IsArrivalSorted(input)
     /\ \A k \in 1..Len(input) : input[k].ProcessID = k) =>
    \A k \in 1..Len(input) :
      /\ schedule[k] # <<>>
      /\ RowTurnaround(schedule[k]) = LastStop(k) - input[k].ArrivalTime
      /\ RowWait(schedule[k])
           = RowTurnaround(schedule[k]) - input[k].BurstDuration

\* C9: no scheduler changes the caller's process sequence: at every point
\* of main's calling sequence it is the sequence that was loaded.
C9_CallerUnchanged ==
  processes = input

\* A preemptive scheduler has finished a run in which its working copies
\* were written (remaining time, completion time) and the caller's were not.
C9_Witness ==
  /\ alg \in Preemptive /\ pc = "done" /\ Len(processes) = 2 /\ count = 2
  /\ process.CompleteTime > 0
  /\ \A k \in 1..Len(processes) : processes[k].CompleteTime = 0

\* C10: on the empty sequence every algorithm finishes without a runtime
\* fault, with an empty Timeline, an empty Metrics list, and average wait
\* and average turnaround equal to 0.
C10_EmptyInput ==
  Len(input) = 0 =>
    /\ pc # "panic"
    /\ pc = "done" =>
         /\ gantt = <<>> /\ schedule = <<>>
         /\ IsZero(aveWait) /\ IsZero(aveTurnaround)

\* C11: an input with a burst duration <= 0 or a negative arrival time is
\* rejected by every algorithm: the simulation loop is never entered, the
\* call does not end as a completed run, and no Metrics Record and no
\* Timeline interval is emitted.
C11_InvalidRejected ==
  ~IsValid(input) =>
    /\ pc \notin {"loop", "done"}
    /\ Emitted = {}
    /\ gantt = <<>>

\* The inputs whose ids are 1..N in input order.
IdsArePositions(ps) == \A k \in 1..Len(ps) : ps[k].ProcessID = k

\* The work left in a loop: for the tick loops, the remaining time of every
\* pending and every ready process (the running one counted by the local
\* copy, which is the one decremented); for the queue loop, twice the burst
\* left in the queue and in the pending slice, plus one when the next
\* iteration can only idle.
RECURSIVE SumRemaining(_)
SumRemaining(ps) ==
  IF ps = <<>> THEN 0 ELSE Head(ps).RemainingTime + SumRemaining(Tail(ps))

RECURSIVE SumBurst(_)
SumBurst(ps) ==
  IF ps = <<>> THEN 0 ELSE Head(ps).BurstDuration + SumBurst(Tail(ps))

MustIdle ==
  Len(queue) = 0 /\ Len(pending) > 0 /\ pending[1].ArrivalTime > serviceTime

WorkLeft ==
  IF alg = "RR"
  THEN 2 * (SumBurst(queue) + SumBurst(pending)) + (IF MustIdle THEN 1 ELSE 0)
  ELSE SumRemaining(pqA)
       + (IF process.RemainingTime = 0 \/ Len(pq) = 0 THEN SumRemaining(pq)
          ELSE process.RemainingTime + SumRemaining(Tail(pq)))

InLoop ==
  /\ pc = "loop" /\ alg \in {"SJF", "Priority", "RR"}
  /\ Len(input) > 0 /\ IsValid(input) /\ IdsArePositions(input)

\* C12: for every non-empty valid input with ids 1..N, the tick loops of
\* SJFSchedule and SJFPrioritySchedule and the queue loop of RRSchedule
\* terminate: inside a loop a step is always possible, every iteration
\* strictly decreases the work left, which never goes below 0, and no
\* iteration ends in a fault, so the exit condition is reached.
C12_LoopsTerminate ==
  /\ [](InLoop => (WorkLeft >= 0 /\ ENABLED <<Next>>_vars))
  /\ [][InLoop =>
          \/ pc' = "done"
          \/ (pc' = "loop" /\ WorkLeft' < WorkLeft)]_vars

\* The same, as a temporal property of the fair specification.
C12_EventuallyDone ==
  InLoop ~> (pc = "done")

\* A round-robin run that idled first, re-enqueued a residual, and ended.
C12_Witness ==
  /\ alg = "RR" /\ pc = "done" /\ IsValid(input) /\ IdsArePositions(input)
  /\ Len(gantt) >= 3 /\ gantt[1].Start > 0


\* The largest completion time shown in the Metrics Records emitted so far.
MaxExit ==
  LET exits == {RowExit(schedule[k]) : k \in Emitted}
  IN CHOOSE e \in exits : \A f \in exits : f <= e

\* C13: for each algorithm and every non-empty valid input, the denominator
\* of the throughput is the completion time of the last process to finish:
\* the maximum completion time over the Metrics Records of the run.
C13_ThroughputDenominator ==
  (pc = "done" /\ Len(input) > 0 /\ IsValid(input)) =>
    /\ Emitted # {}
    /\ aveThroughput.den = MaxExit

\* The same, for one algorithm at a time.
C13_For(a) == alg = a => C13_ThroughputDenominator

RECURSIVE SumRows(_, _)
SumRows(rows, column) ==
  IF rows = <<>> THEN 0
  ELSE (IF Head(rows) = <<>> THEN 0 ELSE column[Head(rows)])
       + SumRows(Tail(rows), column)

WaitColumn == [r \in {schedule[k] : k \in Emitted} |-> RowWait(r)]
TurnaroundColumn == [r \in {schedule[k] : k \in Emitted} |-> RowTurnaround(r)]

\* C14: for each algorithm, the total behind the average wait (turnaround)
\* is the sum of the wait (turnaround) values of the Metrics Records of the
\* run, and the divisor is the number N of input processes.
C14_TotalsMatchRecords ==
  (pc = "done" /\ Len(input) > 0 /\ IsValid(input)) =>
    /\ aveWait.num = SumRows(schedule, WaitColumn)
    /\ aveTurnaround.num = SumRows(schedule, TurnaroundColumn)
    /\ aveWait.den = Len(input)
    /\ aveTurnaround.den = Len(input)

C14_For(a) == alg = a => C14_TotalsMatchRecords

\* The service clock before the process at position k: the bursts before it.
ServiceClockBefore(k) == SumBurst(SubSeq(input, 1, k - 1))

\* C15: FCFSSchedule gives every process the wait max(0, serviceClock -
\* arrivalTime), serviceClock being the sum of the burst durations before it
\* in input order; the value is recomputed for every process (valid inputs).
C15_FCFSWaitRecomputed ==
  (alg = "FCFS" /\ IsValid(input)) =>
    \A k \in Emitted :
      LET due == ServiceClockBefore(k) - input[k].ArrivalTime
      IN RowWait(schedule[k]) = (IF due > 0 THEN due ELSE 0)

\* Remaining-time order and Priority order, as strict orders on processes.
BeforeByRemaining(a, b) ==
  \/ a.RemainingTime < b.RemainingTime
  \/ (a.RemainingTime = b.RemainingTime /\ a.ArrivalTime < b.ArrivalTime)

BeforeByPriority(a, b) ==
  \/ a.Priority < b.Priority
  \/ (a.Priority = b.Priority /\ a.BurstDuration < b.BurstDuration)
  \/ (a.Priority = b.Priority /\ a.BurstDuration = b.BurstDuration
        /\ a.ArrivalTime < b.ArrivalTime)

\* The process the next tick executes (lines 233-235): the local copy, or
\* the head of the ready set when the local copy has just completed.
Executing == IF process.RemainingTime = 0 THEN pq[1] ELSE process

\* C16: at the start of every tick of SJFSchedule (SJFPrioritySchedule) the
\* process that executes is the head of the ready set, and no process of
\* the ready set comes before it in Remaining-time order (Priority order);
\* after every admission and after every completion.
C16_HeadIsMinimal ==
  (alg \in Preemptive /\ pc = "loop" /\ Len(pq) > 0) =>
    /\ Executing.ProcessID = pq[1].ProcessID
    /\ \A k \in 2..Len(pq) :
         IF alg = "SJF" THEN ~BeforeByRemaining(pq[k], Executing)
         ELSE ~BeforeByPriority(pq[k], Executing)

\* A tick of SJFSchedule that starts just after a completion with two
\* processes ready, the head being picked from the ready set as sorted at
\* the last admission.
C16_Witness ==
  /\ alg = "SJF" /\ pc = "loop" /\ Len(pq) >= 2
  /\ count >= 1 /\ process.RemainingTime = 0

\* Round robin on an arrival-sorted valid input with unique ids.
UniqueIds(ps) ==
  \A j, k \in 1..Len(ps) : ps[j].ProcessID = ps[k].ProcessID => j = k

RRSorted ==
  alg = "RR" /\ IsValid(input) /\ IsArrivalSorted(input) /\ UniqueIds(input)

\* An iteration that dequeues: something is queued, or the first pending
\* process has arrived; the process it dequeues.
Dequeues ==
  \/ Len(queue) > 0
  \/ (Len(pending) > 0 /\ pending[1].ArrivalTime <= serviceTime)

Dequeued == IF Len(queue) > 0 THEN queue[1] ELSE pending[1]

IntervalsInOrder ==
  \A k \in 1..(Len(gantt) - 1) :
    gantt[k].Start <= gantt[k + 1].Start /\ gantt[k].Stop <= gantt[k + 1].Start

\* C17: in RRSchedule with quantum 2 on an arrival-sorted input with unique
\* ids, every dequeue emits exactly one Timeline interval, of length
\* min(remaining burst, 2), starting at the current clock; every start is at
\* or after the previous start and stop; and at the end the interval lengths
\* of each process id sum to its input burst duration.
C17_RRIntervals ==
  /\ [][(RRSorted /\ pc = "loop" /\ Dequeues) =>
          gantt' = Append(gantt,
                     TimeSlice(Dequeued.ProcessID, serviceTime,
                               serviceTime + minimum(Dequeued.BurstDuration, 2)))
       ]_vars
  /\ [](RRSorted => IntervalsInOrder)
  /\ []((RRSorted /\ pc = "done") =>
          \A k \in 1..Len(input) :
            SliceTime(gantt, input[k].ProcessID) = input[k].BurstDuration)

\* The same on the inputs whose ids are 1..N as well.
C17_WithIdsInRange ==
  /\ [][(RRSorted /\ IdsArePositions(input) /\ pc = "loop" /\ Dequeues) =>
          gantt' = Append(gantt,
                     TimeSlice(Dequeued.ProcessID, serviceTime,
                               serviceTime + minimum(Dequeued.BurstDuration, 2)))
       ]_vars
  /\ []((RRSorted /\ IdsArePositions(input)) => IntervalsInOrder)
  /\ []((RRSorted /\ IdsArePositions(input) /\ pc = "done") =>
          \A k \in 1..Len(input) :
            SliceTime(gantt, input[k].ProcessID) = input[k].BurstDuration)

\* One iteration of the queue loop of RRSchedule, seen from outside: the
\* processes it admitted are those pending has lost, and the ready queue it
\* served is the old queue followed by them.
Admitted == SubSeq(pending, 1, Len(pending) - Len(pending'))
Served == queue \o Admitted

IsResidualOf(r, p) ==
  /\ r.ProcessID = p.ProcessID
  /\ r.BurstDuration = p.BurstDuration - quantum_time
  /\ r.ArrivalTime = serviceTime'

\* C18: the ready queue of RRSchedule is strictly FIFO.  In every iteration
\* the pending processes admitted are a prefix of the pending slice, in
\* input order, each with arrivalTime <= clock, and the admission stops only
\* at a process that has not arrived; the process served is the head of the
\* queue; and the residual of an unfinished slice goes to the tail, ahead
\* of every process arriving in (slice start, slice stop], which is still
\* pending and is admitted by the next iteration.
C18_RRFifo ==
  [][(alg = "RR" /\ pc = "loop" /\ (Len(queue) > 0 \/ Len(pending) > 0)) =>
       /\ Len(pending') <= Len(pending)
       /\ pending' = SubSeq(pending, Len(Admitted) + 1, Len(pending))
       /\ \A k \in 1..Len(Admitted) : Admitted[k].ArrivalTime <= serviceTime
       /\ (pending' = <<>> \/ pending'[1].ArrivalTime > serviceTime)
       /\ \A k \in 1..Len(pending) :
            pending[k].ArrivalTime > serviceTime =>
              \E j \in 1..Len(pending') : pending'[j] = pending[k]
       /\ IF Served = <<>> THEN queue' = <<>>
          ELSE \/ /\ Head(Served).BurstDuration <= quantum_time
                  /\ queue' = Tail(Served)
               \/ /\ Head(Served).BurstDuration > quantum_time
                  /\ Front(queue') = Tail(Served)
                  /\ IsResidualOf(Last(queue'), Head(Served))
    ]_vars

\* A slice has just ended unfinished: its residual is at the tail of the
\* queue while a process that arrived during the slice is still pending.
C18_Witness ==
  /\ alg = "RR" /\ pc = "loop" /\ Len(gantt) > 0
  /\ Len(queue) > 0 /\ Last(queue).ArrivalTime = serviceTime
  /\ Last(queue).ProcessID = Last(gantt).PID
  /\ Len(pending) > 0
  /\ pending[1].ArrivalTime > Last(gantt).Start
  /\ pending[1].ArrivalTime <= Last(gantt).Stop

PositiveIds(ps) == \A k \in 1..Len(ps) : ps[k].ProcessID > 0

\* C19: RRSchedule stores the record of a process in slot id - 1 of a table
\* of N slots; for every valid input with unique positive ids every slot
\* access is in range (the call does not fault) and, at the end, every
\* process has its own record.
C19_SlotsInRange ==
  (alg = "RR" /\ IsValid(input) /\ UniqueIds(input) /\ PositiveIds(input)) =>
    /\ pc # "panic"
    /\ pc = "done" =>
         \A k \in 1..Len(input) :
           Cardinality(RowsOf(input[k].ProcessID)) = 1

\* The iteration about to run takes the idle-skip branch: the loop goes on,
\* nothing is queued and the first pending process, if any, has not arrived.
IdleSkips ==
  /\ alg = "RR" /\ pc = "loop"
  /\ (Len(queue) > 0 \/ Len(pending) > 0)
  /\ ~Dequeues

\* C20: whenever RRSchedule takes the idle-skip branch the pending list is
\* non-empty, so reading the next pending arrival does not fault; and the
\* iteration after an idle skip admits a process and serves it, so two idle
\* skips never come in a row.
C20_IdleSkipOnce ==
  [][IdleSkips =>
       /\ Len(pending) > 0
       /\ pc' = "loop"
       /\ serviceTime' = pending[1].ArrivalTime
       /\ ~IdleSkips'
       /\ Dequeues' /\ Len(queue') = 0 /\ pending' = pending
    ]_vars

\* The state an idle skip leaves: the clock moved to the first arrival,
\* nothing served yet, the arriving process about to be admitted.
C20_Witness ==
  /\ alg = "RR" /\ pc = "loop" /\ gantt = <<>> /\ queue = <<>>
  /\ serviceTime > 0 /\ Len(pending) > 0
  /\ pending[1].ArrivalTime = serviceTime
=============================================================================
